---- MODULE Spec2Model ----
(***************************************************************************)
(* A model of the food registration form of reizouko-manager: the FoodForm *)
(* component (its state, its event handlers and its open-effect), the      *)
(* validation helpers it calls, the date picker callback that feeds it,    *)
(* and the persistence collaborator addFoodItem seen from the form.        *)
(*                                                                         *)
(* Strings are sequences of one-character strings, so that trim and the    *)
(* two regular expressions of sanitizeHtmlTags are computed character by   *)
(* character.  A Date is a number of ticks since the epoch of the model,   *)
(* TicksPerDay ticks to a day, so that a Date has a calendar day and a     *)
(* time of day.                                                            *)
(***************************************************************************)
EXTENDS Integers, Sequences, FiniteSets

(***************************************************************************)
(* Bounds of the model.                                                    *)
(***************************************************************************)
TicksPerDay == 2
MaxNow == 2
MaxPickDay == 1
MaxRun == 3
MaxPending == 1
MaxTokens == 4
MaxPad == 1
MaxItems == 2
MaxIds == 3

(***************************************************************************)
(* Program constants.                                                      *)
(***************************************************************************)
MAX_NAME_LENGTH == 50
DEFAULT_EXPIRY_DATE_DAYS == 5

\* JavaScript's undefined for a Date | undefined value.
None == -1
\* null, as returned by a validator that found no error.
Null == "null"
\* undefined, the value of a key that an errors object does not hold.
Undef == "undefined"

(***************************************************************************)
(* The fixed messages (the source's Japanese text is given beside each).   *)
(***************************************************************************)
\* '食品名を入力してください。空白文字のみは無効です。'
MsgNameRequired == "Enter a food name. Whitespace only is invalid."
\* `食品名は${MAX_NAME_LENGTH}文字以内で入力してください。`
MsgNameTooLong == "Enter a food name of at most MAX_NAME_LENGTH characters."
\* '賞味期限を選択してください。'
MsgExpiryRequired == "Select an expiry date."
\* '賞味期限は今日以降の日付を選択してください。'
MsgExpiryPast == "Select an expiry date of today or later."
\* '日付を選択してください。'
MsgDateSelect == "Select a date."
\* '食材の追加に失敗しました。もう一度お試しください。'
MsgFallback == "Failed to add the food item. Please try again."
\* '保存容量が上限に達しました。不要なデータを削除してください。'
MsgQuota == "Storage capacity reached. Delete unneeded data."
\* 'ネットワーク接続に問題があります。接続を確認し、もう一度お試しください。'
MsgNetwork == "There is a network problem. Check the connection and try again."
\* 'データの保存中にエラーが発生しました。ブラウザの設定を確認し、もう一度お試しください。'
MsgStorage == "An error occurred while saving. Check the browser settings and try again."
\* '賞味期限が設定されていません。'
MsgExpiryNotSet == "The expiry date is not set."

(***************************************************************************)
(* Characters.                                                             *)
(***************************************************************************)
WhiteSpace == {" ", "\t", "\n"}

LowerLetters ==
  {"a", "b", "c", "d", "e", "f", "g", "h", "i", "j", "k", "l", "m",
   "n", "o", "p", "q", "r", "s", "t", "u", "v", "w", "x", "y", "z"}

UpperLetters ==
  {"A", "B", "C", "D", "E", "F", "G", "H", "I", "J", "K", "L", "M",
   "N", "O", "P", "Q", "R", "S", "T", "U", "V", "W", "X", "Y", "Z"}

Digits == {"0", "1", "2", "3", "4", "5", "6", "7", "8", "9"}

\* \w of a JavaScript regular expression.
WordChars == LowerLetters \cup UpperLetters \cup Digits \cup {"_"}

\* Case folding of the i flag, for the letters the pattern holds.
Lower(c) ==
  CASE c = "S" -> "s"
    [] c = "C" -> "c"
    [] c = "R" -> "r"
    [] c = "I" -> "i"
    [] c = "P" -> "p"
    [] c = "T" -> "t"
    [] OTHER -> c

Repeat(c, n) == [i \in 1..n |-> c]

SetMin(S) == CHOOSE x \in S : \A y \in S : x <= y

(***************************************************************************)
(* String.prototype.trim                                                   *)
(***************************************************************************)
RECURSIVE TrimStart(_)
TrimStart(s) ==
  IF s = << >> THEN << >>
  ELSE IF Head(s) \in WhiteSpace THEN TrimStart(Tail(s))
  ELSE s

RECURSIVE TrimEnd(_)
TrimEnd(s) ==
  IF s = << >> THEN << >>
  ELSE IF s[Len(s)] \in WhiteSpace THEN TrimEnd(SubSeq(s, 1, Len(s) - 1))
  ELSE s

Trim(s) == TrimEnd(TrimStart(s))

(***************************************************************************)
(* sanitizeHtmlTags                                                        *)
(***************************************************************************)
\* The literal text of pattern pat (lower case) stands at position i of s,
\* compared without regard to case.
MatchesAt(s, i, pat) ==
  /\ i + Len(pat) - 1 <= Len(s)
  /\ \A k \in 1..Len(pat) : Lower(s[i + k - 1]) = pat[k]

ScriptOpen == <<"<", "s", "c", "r", "i", "p", "t">>
ScriptClose == <<"<", "/", "s", "c", "r", "i", "p", "t", ">">>

\* <script\b at position i: the text, then a word boundary.
ScriptOpenAt(s, i) ==
  /\ MatchesAt(s, i, ScriptOpen)
  /\ \/ i + Len(ScriptOpen) > Len(s)
     \/ s[i + Len(ScriptOpen)] \notin WordChars

\* [^<]*(?:(?!<\/script>)<[^<]*)*<\/script> from position i, just after
\* <script\b: the match runs to the first </script> at or after i.  The
\* position after the match, or 0 when there is no </script>.
ScriptEnd(s, i) ==
  LET closes == {j \in i..Len(s) : MatchesAt(s, j, ScriptClose)}
  IN  IF closes = {} THEN 0 ELSE SetMin(closes) + Len(ScriptClose)

\* input.replace(/<script\b[^<]*(?:(?!<\/script>)<[^<]*)*<\/script>/gi, '')
\* scanning from position i.
RECURSIVE RemoveScriptsFrom(_, _)
RemoveScriptsFrom(s, i) ==
  IF i > Len(s) THEN << >>
  ELSE IF ScriptOpenAt(s, i) /\ ScriptEnd(s, i + Len(ScriptOpen)) # 0
       THEN RemoveScriptsFrom(s, ScriptEnd(s, i + Len(ScriptOpen)))
       ELSE <<s[i]>> \o RemoveScriptsFrom(s, i + 1)

RemoveScripts(s) == RemoveScriptsFrom(s, 1)

\* Faulty variant of TagAt: only a well-formed tag is matched, a "<", one or
\* more characters that are neither "<" nor ">", then ">".
TagAt_WellFormed(s, i) ==
  /\ s[i] = "<"
  /\ \E j \in (i + 2)..Len(s) :
       /\ s[j] = ">"
       /\ \A k \in (i + 1)..(j - 1) : s[k] \notin {"<", ">"}

\* <\/?[^>]+(>|$) at position i: a "<", at least one character that is not
\* ">", then ">" or the end of the input.
TagAt(s, i) ==
  /\ s[i] = "<"
  /\ i + 1 <= Len(s)
  /\ s[i + 1] # ">"

\* The position after the tag that starts at i.
TagEnd(s, i) ==
  LET closes == {j \in (i + 2)..Len(s) : s[j] = ">"}
  IN  IF closes = {} THEN Len(s) + 1 ELSE SetMin(closes) + 1

\* noScriptTags.replace(/<\/?[^>]+(>|$)/g, '') scanning from position i.
RECURSIVE RemoveTagsFrom(_, _)
RemoveTagsFrom(s, i) ==
  IF i > Len(s) THEN << >>
  ELSE IF TagAt(s, i) THEN RemoveTagsFrom(s, TagEnd(s, i))
       ELSE <<s[i]>> \o RemoveTagsFrom(s, i + 1)

RemoveTags(s) == RemoveTagsFrom(s, 1)

\* Faulty variant of sanitizeHtmlTags: the first replace is left out.
sanitizeHtmlTags_TagsOnly(input) == RemoveTags(input)

sanitizeHtmlTags(input) == RemoveTags(RemoveScripts(input))

(***************************************************************************)
(* validateFoodName, validateExpiryDate                                    *)
(***************************************************************************)
\* Faulty variant of validateFoodName: the length limit is left out.
validateFoodName_NoLimit(name) ==
  LET trimmedName == Trim(name)
  IN  IF trimmedName = << >> THEN MsgNameRequired ELSE Null

\* Faulty variant of validateFoodName: the length is measured after
\* sanitizeHtmlTags.
validateFoodName_AfterSanitize(name) ==
  LET trimmedName == Trim(name)
  IN  IF trimmedName = << >> THEN MsgNameRequired
      ELSE IF Len(sanitizeHtmlTags(trimmedName)) > MAX_NAME_LENGTH
      THEN MsgNameTooLong
      ELSE Null

validateFoodName(name) ==
  LET trimmedName == Trim(name)
  IN  IF trimmedName = << >> THEN MsgNameRequired
      ELSE IF Len(trimmedName) > MAX_NAME_LENGTH THEN MsgNameTooLong
      ELSE Null

\* Faulty variant of Midnight: setHours(0, 0, 0, 0) is left out.
Midnight_NotReset(d) == d

\* today.setHours(0, 0, 0, 0)
Midnight(d) == d - (d % TicksPerDay)

\* clock is the value of new Date() when the validator runs.
validateExpiryDate(date, clock) ==
  IF date = None THEN MsgExpiryRequired
  ELSE IF date < Midnight(clock) THEN MsgExpiryPast
  ELSE Null

(***************************************************************************)
(* date-utils                                                              *)
(***************************************************************************)
\* addDays(new Date(), days)
getDateAfterDays(days, clock) == clock + days * TicksPerDay

\* format(date, 'yyyy-MM-dd'): the calendar day, the time of day dropped.
formatDateToISOString(date) == date \div TicksPerDay

(***************************************************************************)
(* errors.ts: a thrown value is its class and its message.  The four       *)
(* classes extend Error directly, so instanceof is equality of the class.  *)
(***************************************************************************)
\* 'ストレージ容量が超過しました' and the other default messages of errors.ts
DefaultMessage(cls) ==
  CASE cls = "QuotaExceededError" -> "Storage quota exceeded"
    [] cls = "NetworkError" -> "There is a network problem"
    [] cls = "ValidationError" -> "Data validation failed"
    [] cls = "StorageError" -> "Saving the data failed"
    [] OTHER -> "error"

NewError(cls, message) == [cls |-> cls, message |-> message]

InstanceOf(error, cls) == error.cls = cls

NoError == NewError("none", "")

\* What a call of the persistence collaborator can raise: the four classes of
\* errors.ts, a plain Error, and a value that is no Error of the application
\* (the DOMException of localStorage.setItem, the SyntaxError of JSON.parse).
Failures ==
  { NewError("QuotaExceededError", DefaultMessage("QuotaExceededError")),
    NewError("NetworkError", DefaultMessage("NetworkError")),
    NewError("ValidationError", DefaultMessage("ValidationError")),
    NewError("ValidationError", MsgExpiryNotSet),
    NewError("StorageError", DefaultMessage("StorageError")),
    NewError("Error", "generic"),
    NewError("DOMException", "QuotaExceededError") }

\* Faulty variant of ClassifyError: every failure gets the fallback message.
ClassifyError_FallbackOnly(error) == MsgFallback

\* The catch block of handleSubmit: the message shown for a thrown value.
ClassifyError(error) ==
  IF InstanceOf(error, "QuotaExceededError") THEN MsgQuota
  ELSE IF InstanceOf(error, "NetworkError") THEN MsgNetwork
  ELSE IF InstanceOf(error, "ValidationError") THEN error.message
  ELSE IF InstanceOf(error, "StorageError") THEN MsgStorage
  ELSE MsgFallback

(***************************************************************************)
(* The names a user types.                                                 *)
(***************************************************************************)
Names ==
  { << >>,
    <<" ", " ">>,
    <<"a">>,
    <<" ", "a", "\t">>,
    <<"<", "b", ">", " ", "a", "<", "/", "b", ">">>,
    <<"<", "b", ">">>,
    <<"<", "s", "c", "r", "i", "p", "t", ">", "x",
      "<", "/", "s", "c", "r", "i", "p", "t", ">", "a">>,
    Repeat("a", MAX_NAME_LENGTH + 1),
    <<"<">> \o Repeat("b", MAX_NAME_LENGTH) \o <<">", "a">> }

\* The days of the calendar a user can click: each is the midnight of a day.
PickDates == {d * TicksPerDay : d \in 0..MaxPickDay}

(***************************************************************************)
(* State.                                                                  *)
(***************************************************************************)
VARIABLES
  open,                 \* prop open
  name,                 \* useState('')
  expiryDate,           \* useState<Date | undefined>
  errors,               \* useState<FormErrors>({})
  internalIsSubmitting, \* useState(false)
  extSupplied,          \* the prop isSubmitting is supplied
  cbSupplied,           \* the prop onSubmittingChange is supplied
  externalIsSubmitting, \* the value of the prop isSubmitting
  now,                  \* the clock: the value new Date() returns
  minDate,              \* minDate={new Date()} of the last render of the form
  effectPending,        \* the picker's effect of the last render is due
  asyncCollab,          \* the collaborator returns a promise
  pending,              \* promises of the collaborator not yet settled
  ev,                   \* history: the last event handled
  calls,                \* history: the calls the last event's handler made
  run,                  \* history: the current run of submit triggers
  arg,                  \* the string a validation helper is called with
  argDate,              \* the date validateExpiryDate is called with
  ret,                  \* the helper called last and the value it returned
  storage,              \* localStorage: the value under the key 'food-items'
  issued,               \* the ids crypto.randomUUID() has returned
  foodItems,            \* App: useState<FoodItem[]>([]), the list displayed
  op                    \* history: the last operation on the storage

vars ==
  <<open, name, expiryDate, errors, internalIsSubmitting, extSupplied,
    cbSupplied, externalIsSubmitting, now, minDate, effectPending,
    asyncCollab, pending, ev, calls, run, arg, argDate, ret, storage, issued,
    foodItems, op>>

props == <<extSupplied, cbSupplied, asyncCollab>>

\* The variables of a direct call of a validation helper.
unit == <<arg, argDate, ret>>

\* No helper has been called directly.
NoReturn == [fn |-> "none", value |-> Null]

\* The variables of storage.ts, of App's list and of the cards.
store == <<storage, issued, foodItems, op>>

\* localStorage.getItem(STORAGE_KEY) returns null: nothing was saved yet.
NoStorage == [present |-> FALSE, list |-> << >>]

NoFood == [id |-> 0, name |-> << >>, expiryDate |-> None]

\* No item was given to addFoodItem.
NoGiven == [name |-> << >>, expiryDate |-> None]

NoOp ==
  [fn |-> "none", result |-> "none", id |-> 0, item |-> NoFood,
   given |-> NoGiven]

\* setErrors({})
EmptyErrors == [name |-> Undef, expiryDate |-> Undef, systemError |-> Undef]

\* The truthiness of a string | null | undefined.
Truthy(x) == x \notin {Null, Undef, ""}

NoItem == [name |-> << >>, expiryDate |-> None]

Event(type, result) ==
  [type |-> type, result |-> result, error |-> NoError, item |-> NoItem]

ZeroRun == [n |-> 0, adds |-> 0, added |-> 0, closes |-> 0]

Cap(n) == IF n < MaxRun THEN n + 1 ELSE MaxRun

\* const isSubmitting = externalIsSubmitting !== undefined ? ... : ...
isSubmitting ==
  IF extSupplied THEN externalIsSubmitting ELSE internalIsSubmitting

\* Faulty variant of updateSubmittingState: the owner is not notified, the
\* local state is always set.
updateSubmittingState_InternalOnly(submitting) ==
  IF submitting THEN "setInternalIsSubmitting(true)"
  ELSE "setInternalIsSubmitting(false)"

\* updateSubmittingState(submitting): the call it makes.
updateSubmittingState(submitting) ==
  IF cbSupplied
  THEN IF submitting THEN "onSubmittingChange(true)"
                     ELSE "onSubmittingChange(false)"
  ELSE IF submitting THEN "setInternalIsSubmitting(true)"
                     ELSE "setInternalIsSubmitting(false)"

\* The value of a flag after the calls of a handler: the argument of the last
\* of the calls setT / setF among them, or the flag's old value.
RECURSIVE FlagAfter(_, _, _, _)
FlagAfter(cs, setT, setF, old) ==
  IF cs = << >> THEN old
  ELSE LET last == cs[Len(cs)]
       IN  IF last = setT THEN TRUE
           ELSE IF last = setF THEN FALSE
           ELSE FlagAfter(SubSeq(cs, 1, Len(cs) - 1), setT, setF, old)

\* Faulty variant of InternalAfter: the write of the finally block is lost.
InternalAfter_NoClear(cs) ==
  FlagAfter(cs, "setInternalIsSubmitting(true)", "none", internalIsSubmitting)

\* The state of internalIsSubmitting once React has applied the handler's
\* setInternalIsSubmitting calls in order.
InternalAfter(cs) ==
  FlagAfter(cs, "setInternalIsSubmitting(true)",
            "setInternalIsSubmitting(false)", internalIsSubmitting)

\* The prop isSubmitting after the handler: an owner that supplies both props
\* keeps the flag it was notified of last.
ExternalAfter(cs) ==
  IF extSupplied
  THEN FlagAfter(cs, "onSubmittingChange(true)",
                 "onSubmittingChange(false)", externalIsSubmitting)
  ELSE externalIsSubmitting

\* The picker's effect has something to correct after a render:
\* selectedDate && minDate && selectedDate < minDate, the picker mounted.
EffectDue(isOpen, date, min) == isOpen /\ date # None /\ date < min

Init ==
  /\ now = 0
  /\ open \in BOOLEAN
  /\ name = << >>
  /\ expiryDate = getDateAfterDays(DEFAULT_EXPIRY_DATE_DAYS, now)
  /\ errors = EmptyErrors
  /\ internalIsSubmitting = FALSE
  /\ extSupplied \in BOOLEAN
  /\ cbSupplied \in BOOLEAN
  /\ externalIsSubmitting \in (IF extSupplied THEN BOOLEAN ELSE {FALSE})
  /\ minDate = now
  /\ effectPending = FALSE
  /\ asyncCollab = FALSE
  /\ pending = 0
  /\ ev = Event("mount", "done")
  /\ calls = << >>
  /\ run = ZeroRun
  /\ arg = << >>
  /\ argDate = None
  /\ ret = NoReturn
  /\ storage = NoStorage
  /\ foodItems = << >>
  /\ issued = {}
  /\ op = NoOp

(***************************************************************************)
(* Rendering.  Every render of the form evaluates minDate={new Date()}; the *)
(* picker, mounted while the dialog is open, then runs its effect.         *)
(***************************************************************************)
Render ==
  /\ minDate' = now
  /\ effectPending' = EffectDue(open', expiryDate', now)

NoRender == UNCHANGED <<minDate, effectPending>>

\* An event of the user reaches the form: the dialog is open and the effects
\* of the last render have run.
Interactive == open /\ ~effectPending

(***************************************************************************)
(* handleNameChange                                                        *)
(***************************************************************************)
\* Faulty variant of ErrorsAfterNameChange: the error is not cleared.
ErrorsAfterNameChange_Kept(errs) == errs

ErrorsAfterNameChange(errs) ==
  IF Truthy(errs.name) THEN [errs EXCEPT !.name = Undef] ELSE errs

NameChange(value) ==
  /\ Interactive
  /\ value # name
  /\ name' = value
  /\ errors' = ErrorsAfterNameChange(errors)
  /\ ev' = Event("nameChange",
                 IF Truthy(errors.name) THEN "cleared" ELSE "done")
  /\ calls' = << >>
  /\ run' = ZeroRun
  /\ UNCHANGED <<open, expiryDate, internalIsSubmitting,
                 externalIsSubmitting, now, pending, props, unit, store>>
  /\ Render

(***************************************************************************)
(* handleExpiryDateChange, and the picker's handleDateSelect in front of it *)
(***************************************************************************)
\* Faulty variant of ErrorsAfterDateChange: only the error of the field is
\* cleared.
ErrorsAfterDateChange_FieldOnly(errs) ==
  IF Truthy(errs.expiryDate) THEN [errs EXCEPT !.expiryDate = Undef] ELSE errs

ErrorsAfterDateChange(errs) ==
  LET e1 == IF Truthy(errs.expiryDate)
            THEN [errs EXCEPT !.expiryDate = Undef] ELSE errs
  IN  IF Truthy(errs.systemError)
      THEN [e1 EXCEPT !.systemError = Undef] ELSE e1

\* Faulty variant of isValidDate: the date is not compared with minDate.
isValidDate_NoMin(date, min) == date # None

\* isValidDate of the picker, with the minDate prop the form gave it.
isValidDate(date, min) ==
  IF date = None THEN FALSE
  ELSE IF date < min THEN FALSE
  ELSE TRUE

DateSelect(date) ==
  /\ Interactive
  /\ IF date # None /\ ~isValidDate(date, minDate)
     THEN /\ ev' = Event("dateSelect", "skipped")
          /\ calls' = << >>
          /\ UNCHANGED <<expiryDate, errors, run>>
          /\ NoRender
          /\ UNCHANGED open
     ELSE /\ expiryDate' = date
          /\ errors' = ErrorsAfterDateChange(errors)
          /\ ev' = Event("dateSelect",
                         IF Truthy(errors.systemError) THEN "clearedSystem"
                         ELSE IF Truthy(errors.expiryDate)
                         THEN "clearedField" ELSE "done")
          /\ calls' = <<"onDateChange">>
          /\ run' = ZeroRun
          /\ UNCHANGED open
          /\ Render
  /\ UNCHANGED <<name, internalIsSubmitting, externalIsSubmitting, now,
                 pending, props, unit, store>>

\* The picker's effect: a selected date before minDate is replaced by a copy
\* of minDate, through onDateChange.
PickerEffect ==
  /\ effectPending
  /\ expiryDate' = minDate
  /\ errors' = ErrorsAfterDateChange(errors)
  /\ ev' = Event("pickerEffect", "done")
  /\ calls' = <<"onDateChange">>
  /\ run' = ZeroRun
  /\ UNCHANGED <<open, name, internalIsSubmitting, externalIsSubmitting, now,
                 pending, props, unit, store>>
  /\ Render

(***************************************************************************)
(* handleNameBlur                                                          *)
(***************************************************************************)
\* Faulty variant of ErrorsAfterNameBlur: the errors are replaced, the other
\* keys not carried over.
ErrorsAfterNameBlur_Replace(errs, n) ==
  LET nameError == validateFoodName(n)
  IN  [name |-> IF Truthy(nameError) THEN nameError ELSE Undef,
       expiryDate |-> Undef,
       systemError |-> Undef]

ErrorsAfterNameBlur(errs, n) ==
  LET nameError == validateFoodName(n)
  IN  IF Truthy(nameError) THEN [errs EXCEPT !.name = nameError]
      ELSE IF Truthy(errs.name) THEN [errs EXCEPT !.name = Undef]
      ELSE errs

NameBlur ==
  /\ Interactive
  /\ errors' = ErrorsAfterNameBlur(errors, name)
  /\ ev' = Event("nameBlur", "done")
  /\ calls' = << >>
  /\ run' = ZeroRun
  /\ UNCHANGED <<open, name, expiryDate, internalIsSubmitting,
                 externalIsSubmitting, now, pending, props, unit, store>>
  /\ IF Truthy(validateFoodName(name)) \/ Truthy(errors.name)
     THEN Render ELSE NoRender

(***************************************************************************)
(* handleSubmit                                                            *)
(***************************************************************************)
\* Faulty variant of SubmitErrors: the date is not validated.
SubmitErrors_NoDateCheck(n, d, clock) ==
  LET nameError == validateFoodName(n)
  IN  [name |-> IF Truthy(nameError) THEN nameError ELSE Undef,
       expiryDate |-> Undef,
       systemError |-> Undef]

\* Faulty variant of SubmitErrors: the validation stops at the first field in
\* error.
SubmitErrors_FirstOnly(n, d, clock) ==
  LET nameError == validateFoodName(n)
      dateError == IF d # None THEN validateExpiryDate(d, clock)
                   ELSE MsgDateSelect
  IN  IF Truthy(nameError)
      THEN [name |-> nameError, expiryDate |-> Undef, systemError |-> Undef]
      ELSE [name |-> Undef,
            expiryDate |-> IF Truthy(dateError) THEN dateError ELSE Undef,
            systemError |-> Undef]

\* Faulty variant of SubmitErrors: a failed validation is also reported as a
\* failure of the form.
SubmitErrors_SystemMessage(n, d, clock) ==
  LET nameError == validateFoodName(n)
      dateError == IF d # None THEN validateExpiryDate(d, clock)
                   ELSE MsgDateSelect
  IN  [name |-> IF Truthy(nameError) THEN nameError ELSE Undef,
       expiryDate |-> IF Truthy(dateError) THEN dateError ELSE Undef,
       systemError |-> IF Truthy(nameError) \/ Truthy(dateError)
                       THEN MsgFallback ELSE Undef]

\* newErrors: the validation of all fields, at clock.
SubmitErrors(n, d, clock) ==
  LET nameError == validateFoodName(n)
      dateError == IF d # None THEN validateExpiryDate(d, clock)
                   ELSE MsgDateSelect
  IN  [name |-> IF Truthy(nameError) THEN nameError ELSE Undef,
       expiryDate |->
         IF d = None \/ dateError # Null
         THEN (IF Truthy(dateError) THEN dateError ELSE MsgDateSelect)
         ELSE Undef,
       systemError |-> Undef]

\* Object.keys(newErrors).length > 0
HasErrors(newErrors) ==
  newErrors.name # Undef \/ newErrors.expiryDate # Undef

\* Faulty variant of FocusCalls: the focus is moved on every failed validation.
FocusCalls_Always(newErrors) == <<"nameInputRef.focus">>

\* The focus moved on a submit that fails validation.
FocusCalls(newErrors) ==
  IF newErrors.name # Undef THEN <<"nameInputRef.focus">> ELSE << >>

\* const sanitizedName = sanitizeHtmlTags(name.trim())
SanitizedName(n) == sanitizeHtmlTags(Trim(n))

\* Faulty variant of SubmitItem: the date is the one the form was opened with.
SubmitItem_DefaultDate(n, d) ==
  [name |-> SanitizedName(n),
   expiryDate |->
     formatDateToISOString(getDateAfterDays(DEFAULT_EXPIRY_DATE_DAYS, 0))]

\* The argument of addFoodItem.
SubmitItem(n, d) ==
  [name |-> SanitizedName(n), expiryDate |-> formatDateToISOString(d)]

\* Faulty variant of Thrown: the defensive throw raises a plain Error.
Thrown_PlainError(d, outcome) ==
  IF d = None THEN NewError("Error", MsgExpiryNotSet) ELSE outcome

\* What the try block raises: the defensive ValidationError for an absent
\* date, else what addFoodItem raised (NoError when it returned).
Thrown(d, outcome) ==
  IF d = None THEN NewError("ValidationError", MsgExpiryNotSet) ELSE outcome

\* Faulty variant of TryCalls: the dialog is closed before the owner is notified.
TryCalls_CloseFirst(d, outcome) ==
  IF d = None THEN << >>
  ELSE IF outcome = NoError THEN <<"addFoodItem", "onClose", "onFoodAdded">>
  ELSE <<"addFoodItem">>

\* The calls of the try block.
TryCalls(d, outcome) ==
  IF d = None THEN << >>
  ELSE IF outcome = NoError THEN <<"addFoodItem", "onFoodAdded", "onClose">>
  ELSE <<"addFoodItem">>

\* Faulty variant of SubmitCalls: handleSubmit returns with the flag set and
\* clears it in a later task.
SubmitCalls_NoRelease(d, outcome) ==
  <<updateSubmittingState(TRUE)>> \o TryCalls(d, outcome)

\* Faulty variant of SubmitCalls: the flag is cleared after the try block and not in a
\* finally block, so a raised error skips it.
SubmitCalls_NoFinally(d, outcome) ==
  IF Thrown(d, outcome) = NoError
  THEN <<updateSubmittingState(TRUE)>> \o TryCalls(d, outcome)
         \o <<updateSubmittingState(FALSE)>>
  ELSE <<updateSubmittingState(TRUE)>> \o TryCalls(d, outcome)

\* The calls of a submit that passed validation and the guard:
\* updateSubmittingState(true), the try block, and the finally block.
SubmitCalls(d, outcome) ==
  <<updateSubmittingState(TRUE)>> \o TryCalls(d, outcome)
    \o <<updateSubmittingState(FALSE)>>

\* Faulty variant of ErrorsAfterTry: the catch block logs the error and sets no
\* message.
ErrorsAfterTry_Silent(thrown) == EmptyErrors

\* The errors a submit that passed the guard leaves: setErrors({}), then the
\* setErrors of the catch block.
ErrorsAfterTry(thrown) ==
  IF thrown = NoError THEN EmptyErrors
  ELSE [name |-> Undef, expiryDate |-> Undef,
        systemError |-> ClassifyError(thrown)]

Has(cs, c) == \E i \in 1..Len(cs) : cs[i] = c

Count(cs, c) == Cardinality({i \in 1..Len(cs) : cs[i] = c})

\* What addFoodItem can do when called: return (NoError) or raise.  An
\* asynchronous collaborator returns its promise.
Outcomes == IF asyncCollab THEN {NoError} ELSE {NoError} \cup Failures

\* Faulty variant of ErrorsWhenBlocked: the guard is checked before setErrors({}).
ErrorsWhenBlocked_Kept(errs) == errs

\* The errors a submit that is stopped by the guard leaves: setErrors({}) runs
\* before if (isSubmitting) return.
ErrorsWhenBlocked(errs) == EmptyErrors

\* The submit reaches the line after the guard: the fields are valid and no
\* submission is under way.
PassesGuard(n, d, clock) ==
  ~HasErrors(SubmitErrors(n, d, clock)) /\ ~isSubmitting

\* outcome and parentCloses are read only by a submit that passes the guard.
Submit(outcome, parentCloses) ==
  /\ Interactive
  /\ asyncCollab => pending < MaxPending
  /\ PassesGuard(name, expiryDate, now) \/ (outcome = NoError /\ ~parentCloses)
  /\ LET newErrors == SubmitErrors(name, expiryDate, now)
         thrown == Thrown(expiryDate, outcome)
         cs == SubmitCalls(expiryDate, outcome)
     IN  IF HasErrors(newErrors)
         THEN /\ errors' = newErrors
              /\ calls' = FocusCalls(newErrors)
              /\ ev' = Event("submit", "invalid")
              /\ run' = ZeroRun
              /\ UNCHANGED <<open, internalIsSubmitting,
                             externalIsSubmitting, pending>>
         ELSE IF isSubmitting
         THEN /\ errors' = ErrorsWhenBlocked(errors)
              /\ calls' = << >>
              /\ ev' = Event("submit", "blocked")
              /\ run' = IF run.n >= 1 THEN [run EXCEPT !.n = Cap(run.n)]
                        ELSE ZeroRun
              /\ UNCHANGED <<open, internalIsSubmitting,
                             externalIsSubmitting, pending>>
         ELSE /\ errors' = ErrorsAfterTry(thrown)
              /\ calls' = cs
              /\ ev' = [type |-> "submit",
                        result |-> IF thrown = NoError THEN "ok"
                                   ELSE "failed",
                        error |-> thrown,
                        item |-> IF Has(cs, "addFoodItem")
                                 THEN SubmitItem(name, expiryDate)
                                 ELSE NoItem]
              /\ run' = IF thrown = NoError
                        THEN [n |-> Cap(run.n), adds |-> Cap(run.adds),
                              added |-> Cap(run.added),
                              closes |-> Cap(run.closes)]
                        ELSE ZeroRun
              /\ internalIsSubmitting' = InternalAfter(cs)
              /\ externalIsSubmitting' = ExternalAfter(cs)
              /\ open' = IF Has(cs, "onClose") /\ parentCloses THEN FALSE
                         ELSE open
              /\ pending' = IF asyncCollab /\ Has(cs, "addFoodItem")
                            THEN pending + 1 ELSE pending
  /\ UNCHANGED <<name, expiryDate, now, props, unit, store>>
  /\ Render

SubmitTrigger ==
  \E outcome \in Outcomes : \E parentCloses \in BOOLEAN :
    Submit(outcome, parentCloses)

\* The promise of an asynchronous collaborator settles.  handleSubmit did not
\* await it: nothing of the form observes the outcome.
Settle(outcome) ==
  /\ asyncCollab
  /\ pending > 0
  /\ pending' = pending - 1
  /\ ev' = [type |-> "settle",
            result |-> IF outcome = NoError THEN "resolved" ELSE "rejected",
            error |-> outcome, item |-> NoItem]
  /\ calls' = << >>
  /\ UNCHANGED <<open, name, expiryDate, errors, internalIsSubmitting,
                 externalIsSubmitting, now, minDate, effectPending, run,
                 props, unit, store>>

(***************************************************************************)
(* handleCloseDialog (the cancel button, and the dialog's own close)       *)
(***************************************************************************)
\* Faulty variant of CancelCalls: the button and the dialog both close.
CancelCalls_Twice == <<"onClose", "onClose">>

CancelCalls == <<"onClose">>

Cancel(parentCloses) ==
  /\ Interactive
  /\ calls' = CancelCalls
  /\ ev' = Event("cancel", "done")
  /\ run' = ZeroRun
  /\ open' = IF Has(CancelCalls, "onClose") /\ parentCloses THEN FALSE
             ELSE open
  /\ UNCHANGED <<name, expiryDate, errors, internalIsSubmitting,
                 externalIsSubmitting, now, pending, props, unit, store>>
  /\ IF open' # open THEN Render ELSE NoRender

(***************************************************************************)
(* The owner of the form: the props open and isSubmitting.                 *)
(***************************************************************************)
\* useEffect(..., [open]) with open true: the form's values after it.
ResetName == << >>

\* Faulty variant of ResetExpiryDate: the default date computed when the form was
\* mounted is used again.
ResetExpiryDate_AtMount(clock) ==
  getDateAfterDays(DEFAULT_EXPIRY_DATE_DAYS, 0)

ResetExpiryDate(clock) == getDateAfterDays(DEFAULT_EXPIRY_DATE_DAYS, clock)

ResetErrors == EmptyErrors

ParentOpen ==
  /\ ~open
  /\ ~effectPending
  /\ open' = TRUE
  /\ name' = ResetName
  /\ expiryDate' = ResetExpiryDate(now)
  /\ errors' = ResetErrors
  /\ ev' = Event("open",
                 IF name # ResetName \/ errors # ResetErrors
                 THEN "changed" ELSE "same")
  /\ calls' = << >>
  /\ run' = ZeroRun
  /\ UNCHANGED <<internalIsSubmitting, externalIsSubmitting, now, pending,
                 props, unit, store>>
  /\ Render

ParentClose ==
  /\ Interactive
  /\ open' = FALSE
  /\ ev' = Event("close", "done")
  /\ calls' = << >>
  /\ run' = ZeroRun
  /\ UNCHANGED <<name, expiryDate, errors, internalIsSubmitting,
                 externalIsSubmitting, now, pending, props, unit, store>>
  /\ Render

ParentSetSubmitting(value) ==
  /\ extSupplied
  /\ ~effectPending
  /\ value # externalIsSubmitting
  /\ externalIsSubmitting' = value
  /\ ev' = Event("isSubmittingProp", "done")
  /\ calls' = << >>
  /\ UNCHANGED <<open, name, expiryDate, errors, internalIsSubmitting, now,
                 pending, run, props, unit, store>>
  /\ Render

(***************************************************************************)
(* The clock.                                                              *)
(***************************************************************************)
Tick ==
  /\ ~effectPending
  /\ now < MaxNow
  /\ now' = now + 1
  /\ ev' = Event("tick", "done")
  /\ calls' = << >>
  /\ UNCHANGED <<open, name, expiryDate, errors, internalIsSubmitting,
                 externalIsSubmitting, minDate, effectPending, pending, run,
                 props, unit, store>>

(***************************************************************************)
(* Specifications.  Spec: the form with the synchronous addFoodItem of     *)
(* storage.ts.  SpecAsync: the form with a collaborator that returns a     *)
(* promise.                                                                *)
(***************************************************************************)
Next ==
  \/ \E value \in Names : NameChange(value)
  \/ \E date \in PickDates \cup {None} : DateSelect(date)
  \/ PickerEffect
  \/ NameBlur
  \/ SubmitTrigger
  \/ \E parentCloses \in BOOLEAN : Cancel(parentCloses)
  \/ ParentOpen
  \/ ParentClose
  \/ \E value \in BOOLEAN : ParentSetSubmitting(value)
  \/ Tick

Spec == Init /\ [][Next]_vars

InitAsync ==
  /\ now = 0
  /\ open \in BOOLEAN
  /\ name = << >>
  /\ expiryDate = getDateAfterDays(DEFAULT_EXPIRY_DATE_DAYS, now)
  /\ errors = EmptyErrors
  /\ internalIsSubmitting = FALSE
  /\ extSupplied \in BOOLEAN
  /\ cbSupplied \in BOOLEAN
  /\ externalIsSubmitting \in (IF extSupplied THEN BOOLEAN ELSE {FALSE})
  /\ minDate = now
  /\ effectPending = FALSE
  /\ asyncCollab = TRUE
  /\ pending = 0
  /\ ev = Event("mount", "done")
  /\ calls = << >>
  /\ run = ZeroRun
  /\ arg = << >>
  /\ argDate = None
  /\ ret = NoReturn
  /\ storage = NoStorage
  /\ foodItems = << >>
  /\ issued = {}
  /\ op = NoOp

NextAsync ==
  \/ Next
  \/ \E outcome \in {NoError} \cup Failures : Settle(outcome)

SpecAsync == InitAsync /\ [][NextAsync]_vars

(***************************************************************************)
(* The persistence step of handleSubmit on its own: the lines after the    *)
(* guard, entered with a name that passed validation and with every value  *)
(* the type of expiryDate allows, the absent date included.  In Spec the   *)
(* validation of handleSubmit refuses an absent date before this step.     *)
(***************************************************************************)
ValidNames ==
  {n \in Names \cup {Repeat("a", MAX_NAME_LENGTH)} :
     validateFoodName(n) = Null}

InitPersist ==
  /\ now \in 0..MaxNow
  /\ open = TRUE
  /\ name \in ValidNames
  /\ expiryDate \in {None} \cup PickDates
                   \cup {getDateAfterDays(DEFAULT_EXPIRY_DATE_DAYS, now)}
  /\ expiryDate # None => validateExpiryDate(expiryDate, now) = Null
  /\ errors = EmptyErrors
  /\ internalIsSubmitting = FALSE
  /\ extSupplied \in BOOLEAN
  /\ cbSupplied \in BOOLEAN
  /\ externalIsSubmitting = FALSE
  /\ minDate = now
  /\ effectPending = FALSE
  /\ asyncCollab = FALSE
  /\ pending = 0
  /\ ev = Event("submit", "validated")
  /\ calls = << >>
  /\ run = ZeroRun
  /\ arg = << >>
  /\ argDate = None
  /\ ret = NoReturn
  /\ storage = NoStorage
  /\ foodItems = << >>
  /\ issued = {}
  /\ op = NoOp

\* updateSubmittingState(true), the try, catch and finally blocks.
PersistStep(outcome, parentCloses) ==
  /\ ev = Event("submit", "validated")
  /\ LET thrown == Thrown(expiryDate, outcome)
         cs == SubmitCalls(expiryDate, outcome)
     IN  /\ errors' = ErrorsAfterTry(thrown)
         /\ calls' = cs
         /\ ev' = [type |-> "submit",
                   result |-> IF thrown = NoError THEN "ok" ELSE "failed",
                   error |-> thrown,
                   item |-> IF Has(cs, "addFoodItem")
                            THEN SubmitItem(name, expiryDate)
                            ELSE NoItem]
         /\ internalIsSubmitting' = InternalAfter(cs)
         /\ externalIsSubmitting' = ExternalAfter(cs)
         /\ open' = IF Has(cs, "onClose") /\ parentCloses THEN FALSE
                    ELSE open
  /\ UNCHANGED <<name, expiryDate, now, pending, run, props, unit, store>>
  /\ Render

NextPersist ==
  \E outcome \in Outcomes : \E parentCloses \in BOOLEAN :
    PersistStep(outcome, parentCloses)

SpecPersist == InitPersist /\ [][NextPersist]_vars

(***************************************************************************)
(* The validation helpers called on their own, as validation.test.ts calls *)
(* them: SpecValidation draws the argument and the clock, and each action  *)
(* is one call.                                                            *)
(***************************************************************************)
\* The pieces the strings are built of.
Tokens ==
  { <<"<">>, <<">">>, <<"/">>, <<"a">>, <<" ">>,
    <<"<", "b", ">">>,
    <<"<", "S", "c", "r", "i", "p", "t">>,
    ScriptClose }

RECURSIVE Concat(_)
Concat(ts) == IF ts = << >> THEN << >> ELSE Head(ts) \o Concat(Tail(ts))

\* The strings of at most MaxTokens pieces.
TokenStrings ==
  {Concat(ts) : ts \in UNION {[1..k -> Tokens] : k \in 0..MaxTokens}}

\* Whitespace in front and behind.
Pads == {Repeat(w, k) : w \in WhiteSpace, k \in 0..MaxPad}

\* Names of every length up to and just over MAX_NAME_LENGTH, plain and with
\* markup, with whitespace around them.
LengthNames ==
  {lead \o body \o trail :
     lead \in Pads, trail \in Pads,
     body \in {Repeat("a", n) : n \in 0..(MAX_NAME_LENGTH + MaxPad)}
            \cup {<<"<", "b", ">">> \o Repeat("a", n) :
                    n \in 0..(MAX_NAME_LENGTH + MaxPad)}}

ArgStrings == TokenStrings \cup LengthNames

ArgDates == {None} \cup 0..(MaxNow + TicksPerDay)

InitValidation ==
  /\ \/ arg \in ArgStrings /\ argDate = None /\ now = 0
     \/ arg = << >> /\ argDate \in ArgDates /\ now \in 0..MaxNow
  /\ ret = NoReturn
  /\ storage = NoStorage
  /\ foodItems = << >>
  /\ issued = {}
  /\ op = NoOp
  /\ open = FALSE
  /\ name = << >>
  /\ expiryDate = getDateAfterDays(DEFAULT_EXPIRY_DATE_DAYS, now)
  /\ errors = EmptyErrors
  /\ internalIsSubmitting = FALSE
  /\ extSupplied = FALSE
  /\ cbSupplied = FALSE
  /\ externalIsSubmitting = FALSE
  /\ minDate = now
  /\ effectPending = FALSE
  /\ asyncCollab = FALSE
  /\ pending = 0
  /\ ev = Event("mount", "done")
  /\ calls = << >>
  /\ run = ZeroRun

Form ==
  <<open, name, expiryDate, errors, internalIsSubmitting, extSupplied,
    cbSupplied, externalIsSubmitting, now, minDate, effectPending,
    asyncCollab, pending, ev, calls, run>>

CallValidateFoodName ==
  /\ ret' = [fn |-> "validateFoodName", value |-> validateFoodName(arg)]
  /\ UNCHANGED <<arg, argDate, Form, store>>

CallValidateExpiryDate ==
  /\ ret' = [fn |-> "validateExpiryDate",
             value |-> validateExpiryDate(argDate, now)]
  /\ UNCHANGED <<arg, argDate, Form, store>>

CallSanitizeHtmlTags ==
  /\ ret' = [fn |-> "sanitizeHtmlTags", value |-> sanitizeHtmlTags(arg)]
  /\ UNCHANGED <<arg, argDate, Form, store>>

\* sanitizeHtmlTags called with what it returned.
CallSanitizeHtmlTagsAgain ==
  /\ ret.fn = "sanitizeHtmlTags"
  /\ ret' = [fn |-> "sanitizeHtmlTags twice",
             value |-> sanitizeHtmlTags(ret.value)]
  /\ UNCHANGED <<arg, argDate, Form, store>>

NextValidation ==
  \/ CallValidateFoodName
  \/ CallValidateExpiryDate
  \/ CallSanitizeHtmlTags
  \/ CallSanitizeHtmlTagsAgain

SpecValidation == InitValidation /\ [][NextValidation]_vars

(***************************************************************************)
(* storage.ts and FoodCard: the stored list, addFoodItem and deleteFoodItem *)
(* called as the form and the cards call them, and the delete button of a  *)
(* card.  The list App shows is the stored list: App reloads it after      *)
(* every add (onFoodAdded) and every delete (onDelete).                    *)
(***************************************************************************)
Ids == 1..MaxIds

\* What addFoodItem is given: a name and a day.
GivenItems ==
  {[name |-> <<"a">>, expiryDate |-> 0], [name |-> <<"b">>, expiryDate |-> 1]}

\* items ? JSON.parse(items) : []
getAllFoodItems(st) == IF st.present THEN st.list ELSE << >>

\* localStorage.setItem(STORAGE_KEY, JSON.stringify(items))
saveFoodItems(items) == [present |-> TRUE, list |-> items]

\* Faulty variant of NewIds: the id is the position of the new item.
NewIds_ByPosition(st, used) == {Len(getAllFoodItems(st)) + 1}

\* crypto.randomUUID(): any id that was not returned before.
NewIds(st, used) == Ids \ used

\* { ...item, id: crypto.randomUUID() }
NewItem(item, id) ==
  [id |-> id, name |-> item.name, expiryDate |-> item.expiryDate]

\* saveFoodItems([...items, newItem])
StorageAfterAdd(st, newItem) ==
  saveFoodItems(Append(getAllFoodItems(st), newItem))

\* items.filter((item) => item.id !== id)
RECURSIVE Without(_, _)
Without(items, id) ==
  IF items = << >> THEN << >>
  ELSE IF Head(items).id # id
       THEN <<Head(items)>> \o Without(Tail(items), id)
       ELSE Without(Tail(items), id)

StorageAfterDelete(st, id) ==
  saveFoodItems(Without(getAllFoodItems(st), id))

HasId(items, id) == \E k \in 1..Len(items) : items[k].id = id

\* App.loadFoodItems: the list it hands to setFoodItems.
loadFoodItems(st) == getAllFoodItems(st)

\* Faulty variant of FoodItemsAfter: the cards are not given loadFoodItems as
\* onDelete.
FoodItemsAfter_AddOnly(cs, st, old) ==
  IF Has(cs, "onFoodAdded") THEN loadFoodItems(st) ELSE old

\* App's list after a handler that made the calls cs and left the storage
\* st: onFoodAdded of the form and onDelete of every card are loadFoodItems.
FoodItemsAfter(cs, st, old) ==
  IF Has(cs, "onFoodAdded") \/ Has(cs, "onDelete") THEN loadFoodItems(st)
  ELSE old

InitStorage ==
  /\ storage = NoStorage
  /\ foodItems = loadFoodItems(storage)
  /\ issued = {}
  /\ op = NoOp
  /\ now = 0
  /\ open = FALSE
  /\ name = << >>
  /\ expiryDate = getDateAfterDays(DEFAULT_EXPIRY_DATE_DAYS, now)
  /\ errors = EmptyErrors
  /\ internalIsSubmitting = FALSE
  /\ extSupplied = FALSE
  /\ cbSupplied = FALSE
  /\ externalIsSubmitting = FALSE
  /\ minDate = now
  /\ effectPending = FALSE
  /\ asyncCollab = FALSE
  /\ pending = 0
  /\ ev = Event("mount", "done")
  /\ calls = << >>
  /\ run = ZeroRun
  /\ arg = << >>
  /\ argDate = None
  /\ ret = NoReturn

Rest ==
  <<open, name, expiryDate, errors, internalIsSubmitting, extSupplied,
    cbSupplied, externalIsSubmitting, now, minDate, effectPending,
    asyncCollab, pending, ev, run, arg, argDate, ret>>

\* addFoodItem(item), called by the try block of the form of App; fails:
\* localStorage.setItem raises (the quota).
AddFoodItem(item, id, fails) ==
  /\ Len(getAllFoodItems(storage)) < MaxItems
  /\ id \in NewIds(storage, issued)
  /\ issued' = issued \cup {id}
  /\ storage' = IF fails THEN storage
                ELSE StorageAfterAdd(storage, NewItem(item, id))
  /\ calls' = TryCalls(item.expiryDate,
                       IF fails
                       THEN NewError("DOMException", "QuotaExceededError")
                       ELSE NoError)
  /\ foodItems' = FoodItemsAfter(calls', storage', foodItems)
  /\ op' = [fn |-> "addFoodItem",
            result |-> IF fails THEN "thrown" ELSE "returned",
            id |-> id,
            item |-> IF fails THEN NoFood ELSE NewItem(item, id),
            given |-> item]
  /\ UNCHANGED Rest

\* deleteFoodItem(id)
DeleteFoodItem(id) ==
  /\ storage' = StorageAfterDelete(storage, id)
  /\ op' = [fn |-> "deleteFoodItem",
            result |-> IF HasId(getAllFoodItems(storage), id)
                       THEN "removed" ELSE "absent",
            id |-> id, item |-> NoFood, given |-> NoGiven]
  /\ calls' = << >>
  /\ UNCHANGED <<issued, foodItems, Rest>>

\* Faulty variant of HandleDeleteCalls: the answer of confirm is not read.
HandleDeleteCalls_NoConfirm(confirmed) ==
  <<"confirm", "deleteFoodItem", "onDelete">>

\* FoodCard.handleDelete: the calls it makes.
HandleDeleteCalls(confirmed) ==
  IF confirmed THEN <<"confirm", "deleteFoodItem", "onDelete">>
  ELSE <<"confirm">>

\* The delete button of the k-th card App displays is clicked.
CardDelete(k, confirmed) ==
  /\ k \in 1..Len(foodItems)
  /\ LET food == foodItems[k]
         cs == HandleDeleteCalls(confirmed)
     IN  /\ calls' = cs
         /\ storage' = IF Has(cs, "deleteFoodItem")
                       THEN StorageAfterDelete(storage, food.id)
                       ELSE storage
         /\ foodItems' = FoodItemsAfter(cs, storage', foodItems)
         /\ op' = [fn |-> "handleDelete",
                   result |-> IF confirmed THEN "accepted"
                              ELSE "declined",
                   id |-> IF Has(cs, "deleteFoodItem") THEN food.id ELSE 0,
                   item |-> food, given |-> NoGiven]
  /\ UNCHANGED <<issued, Rest>>

NextStorage ==
  \/ \E item \in GivenItems : \E id \in Ids : \E fails \in BOOLEAN :
       AddFoodItem(item, id, fails)
  \/ \E id \in Ids : DeleteFoodItem(id)
  \/ \E k \in 1..MaxItems : \E confirmed \in BOOLEAN :
       CardDelete(k, confirmed)

SpecStorage == InitStorage /\ [][NextStorage]_vars

(***************************************************************************)
(* Properties.                                                             *)
(***************************************************************************)
SetTrue == updateSubmittingState(TRUE)
SetFalse == updateSubmittingState(FALSE)

IsCollaboratorOrCallback(c) == c \in {"addFoodItem", "onFoodAdded", "onClose"}

NameIsValid == ~Truthy(validateFoodName(name))

DateIsValid ==
  expiryDate # None /\ ~Truthy(validateExpiryDate(expiryDate, now))

\* C1: submit triggers with valid fields issued one after another against the
\* same open form, with no edit and no reopen in between and the collaborator
\* succeeding, invoke addFoodItem, onFoodAdded and onClose exactly once each
\* in total.
C1_SubmitOnce ==
  run.n >= 1 => run.adds = 1 /\ run.added = 1 /\ run.closes = 1

\* C2: a submit whose name or date fails validation (the date absent
\* included) invokes neither addFoodItem nor onFoodAdded nor onClose and does
\* not set the submitting flag; whenever addFoodItem is invoked, name and date
\* both pass validation.
C2_InvalidSubmitStops ==
  /\ (ev.type = "submit" /\ ~(NameIsValid /\ DateIsValid)) =>
       /\ ~Has(calls, "addFoodItem")
       /\ ~Has(calls, "onFoodAdded")
       /\ ~Has(calls, "onClose")
       /\ ~Has(calls, SetTrue)
       /\ ev.result = "invalid"
  /\ Has(calls, "addFoodItem") => NameIsValid /\ DateIsValid

C2_Witness ==
  /\ ev.type = "submit"
  /\ ev.result = "invalid"
  /\ NameIsValid
  /\ expiryDate # None
  /\ ~DateIsValid

\* C3: a submission that calls updateSubmittingState(true) calls
\* updateSubmittingState(false) last, before handleSubmit returns, on success
\* and on failure; after a completed submit the guard is released:
\* internalIsSubmitting is false and isSubmitting reads false.
C3_GuardReleased ==
  /\ Has(calls, SetTrue) =>
       /\ calls[1] = SetTrue
       /\ calls[Len(calls)] = SetFalse
       /\ Count(calls, SetTrue) = 1
       /\ Count(calls, SetFalse) = 1
  /\ internalIsSubmitting = FALSE
  /\ (ev.type = "submit" /\ ev.result \in {"ok", "failed"}) =>
       Has(calls, SetTrue) /\ ~isSubmitting

C3_Witness ==
  /\ ev.type = "submit"
  /\ ev.result = "failed"
  /\ Has(calls, SetTrue)
  /\ ~cbSupplied

\* C4: a successful submission invokes addFoodItem, then onFoodAdded, then
\* onClose, once each; a submission whose collaborator call fails invokes
\* neither onFoodAdded nor onClose; no other event invokes onFoodAdded.
C4_CallbackOrder ==
  /\ (ev.type = "submit" /\ ev.result = "ok") =>
       SelectSeq(calls, IsCollaboratorOrCallback)
         = <<"addFoodItem", "onFoodAdded", "onClose">>
  /\ (ev.type = "submit" /\ ev.result = "failed") =>
       ~Has(calls, "onFoodAdded") /\ ~Has(calls, "onClose")
  /\ Has(calls, "onFoodAdded") => ev.type = "submit" /\ ev.result = "ok"

C4_Witness ==
  /\ ev.type = "submit"
  /\ ev.result = "ok"
  /\ Has(calls, "onClose")
  /\ ~open

C6_FailuresCaught ==
  ev.error # NoError => errors.systemError = ClassifyError(ev.error)

NoTagIn(s) == \A i \in 1..Len(s) : ~TagAt(s, i)

\* C9: the name handed to addFoodItem is the input sanitized and then
\* trimmed: it holds no tag and no leading or trailing whitespace.
C9_SanitizedThenTrimmed ==
  Has(calls, "addFoodItem") =>
    /\ ev.item.name = Trim(sanitizeHtmlTags(name))
    /\ NoTagIn(ev.item.name)
    /\ Trim(ev.item.name) = ev.item.name

\* C10: after every transition of the dialog from closed to open, name is
\* empty, the date is the time of the reopening plus
\* DEFAULT_EXPIRY_DATE_DAYS days, no error is set and the form's submitting
\* flag is false.
C10_ReopenResets ==
  ev.type = "open" =>
    /\ open
    /\ name = << >>
    /\ expiryDate = now + DEFAULT_EXPIRY_DATE_DAYS * TicksPerDay
    /\ errors = [name |-> Undef, expiryDate |-> Undef, systemError |-> Undef]
    /\ internalIsSubmitting = FALSE

C10_Witness ==
  /\ ev.type = "open"
  /\ ev.result = "changed"
  /\ now > 0

\* C11: after every name change errors.name is absent, and after every date
\* change (a date picked, or the picker's correction) errors.expiryDate is
\* absent: the error of a field does not survive a change of its value.
C11_ChangeClearsFieldError ==
  /\ ev.type = "nameChange" => errors.name = Undef
  /\ (ev.type = "dateSelect" /\ ev.result # "skipped") =>
       errors.expiryDate = Undef
  /\ ev.type = "pickerEffect" => errors.expiryDate = Undef

C11_Witness ==
  /\ ev.type = "nameChange"
  /\ ev.result = "cleared"

\* The length of s without its leading and trailing whitespace: the distance
\* from its first to its last character that is not whitespace.
TrimmedLength(s) ==
  LET solid == {i \in 1..Len(s) : s[i] \notin WhiteSpace}
  IN  IF solid = {} THEN 0
      ELSE (CHOOSE x \in solid : \A y \in solid : y <= x) - SetMin(solid) + 1

\* C12: validateFoodName returns the 'name required' message when the trimmed
\* input is empty, the 'at most MAX_NAME_LENGTH characters' message when the
\* trimmed, unsanitized input is longer than MAX_NAME_LENGTH (markup counted),
\* and null for every trimmed length from 1 to MAX_NAME_LENGTH.
C12_NameValidationTotal ==
  ret.fn = "validateFoodName" =>
    ret.value = IF TrimmedLength(arg) = 0 THEN MsgNameRequired
                ELSE IF TrimmedLength(arg) > MAX_NAME_LENGTH
                THEN MsgNameTooLong
                ELSE Null

C12_Witness ==
  /\ ret.fn = "validateFoodName"
  /\ ret.value = MsgNameTooLong
  /\ Len(sanitizeHtmlTags(arg)) <= MAX_NAME_LENGTH

\* C13: validateExpiryDate returns a message for an absent date and for every
\* date of a calendar day before today's, and null for every date of today or
\* of a later day, whatever the time of day of the date.
C13_ExpiryDateByCalendarDay ==
  ret.fn = "validateExpiryDate" =>
    /\ ret.value \in {Null, MsgExpiryRequired, MsgExpiryPast}
    /\ argDate = None => ret.value # Null
    /\ argDate # None =>
         (ret.value # Null <=> argDate \div TicksPerDay < now \div TicksPerDay)

C13_Witness ==
  /\ ret.fn = "validateExpiryDate"
  /\ argDate # None
  /\ argDate < now
  /\ ret.value = Null

\* C14: sanitizeHtmlTags is idempotent: called with what it returned, it
\* returns the same string.
C14_SanitizeIdempotent ==
  ret.fn = "sanitizeHtmlTags twice" => ret.value = sanitizeHtmlTags(arg)

C14_Witness ==
  /\ ret.fn = "sanitizeHtmlTags twice"
  /\ ret.value # arg
  /\ ret.value # << >>

\* C15: the flag isSubmitting reads is the flag updateSubmittingState writes,
\* whichever of the props isSubmitting and onSubmittingChange are supplied:
\* the call updateSubmittingState(true) of a submission makes the flag that
\* isSubmitting reads true.
C15_OneFlagAuthoritative ==
  Has(calls, SetTrue) =>
    IF extSupplied THEN ExternalAfter(<<SetTrue>>)
    ELSE InternalAfter(<<SetTrue>>)

\* C16: with a synchronous and with an asynchronous collaborator, a submit
\* invokes onFoodAdded and onClose, and releases the guard, only once the
\* call of the collaborator has settled.
C16_CallbacksAfterSettle ==
  (/\ ev.type = "submit"
   /\ \/ Has(calls, "onFoodAdded")
      \/ Has(calls, "onClose")
      \/ Has(calls, SetFalse)) => pending = 0

C19_CancelOnlyCloses ==
  [][ev'.type = "cancel" =>
       /\ calls' = <<"onClose">>
       /\ UNCHANGED <<name, expiryDate, errors, internalIsSubmitting,
                      externalIsSubmitting>>]_vars

C19_Witness ==
  /\ ev.type = "cancel"
  /\ ~open
  /\ name # << >>
  /\ Truthy(errors.name)

\* a is b with some of its characters left out, the order kept.
RECURSIVE IsSubSeq(_, _)
IsSubSeq(a, b) ==
  IF a = << >> THEN TRUE
  ELSE IF b = << >> THEN FALSE
  ELSE IF Head(a) = Head(b) THEN IsSubSeq(Tail(a), Tail(b))
  ELSE IsSubSeq(a, Tail(b))

\* C20: what sanitizeHtmlTags returns holds no tag, is the input with
\* characters left out and the order kept, and holds nothing of a script
\* block: when plain text is followed by a script block, the result is that
\* text followed by the sanitized rest of the input after the block.
C20_SanitizeRemovesMarkup ==
  ret.fn = "sanitizeHtmlTags" =>
    /\ NoTagIn(ret.value)
    /\ IsSubSeq(ret.value, arg)
    /\ \A i \in 1..Len(arg) :
         (/\ ScriptOpenAt(arg, i)
          /\ ScriptEnd(arg, i + Len(ScriptOpen)) # 0
          /\ \A k \in 1..(i - 1) : arg[k] # "<") =>
           ret.value =
             SubSeq(arg, 1, i - 1)
               \o sanitizeHtmlTags(
                    SubSeq(arg, ScriptEnd(arg, i + Len(ScriptOpen)),
                           Len(arg)))

C20_Witness ==
  /\ ret.fn = "sanitizeHtmlTags"
  /\ ScriptOpenAt(arg, 1)
  /\ ScriptEnd(arg, 1 + Len(ScriptOpen)) = Len(arg) + 1
  /\ \E k \in 1..Len(arg) : arg[k] = "a"
  /\ ret.value = << >>

C22_AbsentDateMessage ==
  (ev.type = "submit" /\ expiryDate = None) =>
    /\ errors.expiryDate = validateExpiryDate(None, now)
    /\ ~Has(calls, "addFoodItem")

IsNotification(c) ==
  c \in {"onSubmittingChange(true)", "onSubmittingChange(false)"}

IsLocalWrite(c) ==
  c \in {"setInternalIsSubmitting(true)", "setInternalIsSubmitting(false)"}

\* C23: with onSubmittingChange supplied, a submit that passes the guard calls
\* onSubmittingChange(true) once and then onSubmittingChange(false) once, so
\* that the notifications alternate; no other event and no blocked or invalid
\* submit notifies; internalIsSubmitting is never written.
C23_OwnerNotified ==
  cbSupplied =>
    /\ (ev.type = "submit" /\ ev.result \in {"ok", "failed"}) =>
         SelectSeq(calls, IsNotification)
           = <<"onSubmittingChange(true)", "onSubmittingChange(false)">>
    /\ ~(ev.type = "submit" /\ ev.result \in {"ok", "failed"}) =>
         SelectSeq(calls, IsNotification) = << >>
    /\ SelectSeq(calls, IsLocalWrite) = << >>
    /\ internalIsSubmitting = FALSE

C23_Witness ==
  /\ cbSupplied
  /\ extSupplied
  /\ ev.type = "submit"
  /\ ev.result = "ok"
  /\ Has(calls, "onSubmittingChange(true)")

\* C24: a submission that has set the submitting flag reaches its outcome
\* (onFoodAdded and onClose invoked, or systemError set) and releases the
\* guard within the same event: in no state between two events is a
\* submission under way.
C24_NoMidSubmissionEvent ==
  /\ internalIsSubmitting = FALSE
  /\ Has(calls, SetTrue) =>
       /\ ev.type = "submit"
       /\ calls[Len(calls)] = SetFalse
       /\ \/ /\ ev.result = "ok"
             /\ Has(calls, "onFoodAdded")
             /\ Has(calls, "onClose")
          \/ /\ ev.result = "failed"
             /\ Truthy(errors.systemError)

C24_Witness ==
  /\ ev.type = "submit"
  /\ ev.result = "ok"
  /\ Has(calls, SetTrue)
  /\ open
  /\ ~cbSupplied

\* C25: a submit moves the focus to the name field, once, if and only if it
\* fails validation with an error of the name (the date in error too or
\* not); no other event moves it.
C25_FocusOnNameError ==
  /\ ev.type = "submit" =>
       Count(calls, "nameInputRef.focus")
         = IF ev.result = "invalid" /\ ~NameIsValid THEN 1 ELSE 0
  /\ Has(calls, "nameInputRef.focus") => ev.type = "submit"

C25_Witness ==
  /\ ev.type = "submit"
  /\ ev.result = "invalid"
  /\ Has(calls, "nameInputRef.focus")
  /\ Truthy(errors.expiryDate)

C27_SystemErrorOnlyFromCollaborator ==
  [][(/\ Truthy(errors'.systemError)
      /\ ~(/\ ev'.type = "submit"
           /\ ev'.result = "failed"
           /\ Has(calls', "addFoodItem"))) =>
       errors'.systemError = errors.systemError]_vars

C27_Witness ==
  /\ ev.type = "submit"
  /\ ev.result = "failed"
  /\ Has(calls, "addFoodItem")
  /\ errors.systemError = MsgQuota

\* C28: the date handed to addFoodItem is the calendar day of the form's date,
\* and the form's date is changed only by a date change (a date picked or
\* deselected, the picker's correction) and by the opening of the form, which
\* sets it to the time of the opening plus DEFAULT_EXPIRY_DATE_DAYS days.
C28_SubmittedDate ==
  [][/\ Has(calls', "addFoodItem") =>
          ev'.item.expiryDate = expiryDate \div TicksPerDay
     /\ expiryDate' # expiryDate =>
          \/ ev'.type = "dateSelect" /\ ev'.result # "skipped"
          \/ ev'.type = "pickerEffect"
          \/ /\ ev'.type = "open"
             /\ expiryDate' = now + DEFAULT_EXPIRY_DATE_DAYS * TicksPerDay]_vars

C28_Witness ==
  /\ ev.type = "submit"
  /\ ev.result = "ok"
  /\ expiryDate \in PickDates
  /\ ev.item.expiryDate = expiryDate \div TicksPerDay
  /\ ev.item.expiryDate < DEFAULT_EXPIRY_DATE_DAYS

\* C29: when the confirmation of a card's delete click is accepted,
\* deleteFoodItem is called once with the id of the card's item and then
\* onDelete once, and no item with that id is left; when it is declined,
\* neither is called and the storage is unchanged.
C29_CardDelete ==
  [][op'.fn = "handleDelete" =>
       IF op'.result = "accepted"
       THEN /\ calls' = <<"confirm", "deleteFoodItem", "onDelete">>
            /\ op'.id = op'.item.id
            /\ ~HasId(getAllFoodItems(storage'), op'.item.id)
       ELSE /\ calls' = <<"confirm">>
            /\ storage' = storage]_vars

C29_Witness ==
  /\ op.fn = "handleDelete"
  /\ op.result = "accepted"
  /\ Len(getAllFoodItems(storage)) >= 1

\* C30: addFoodItem appends one item with the given name and expiryDate and
\* an id no stored item has to the end of the stored list and returns it;
\* deleteFoodItem(id) removes the items whose id is id and leaves the others
\* in their order; the stored ids are pairwise distinct after every operation.
C30_StorageOperations ==
  [][LET old == getAllFoodItems(storage)
         new == getAllFoodItems(storage')
     IN  /\ (op'.fn = "addFoodItem" /\ op'.result = "returned") =>
              /\ new = Append(old, op'.item)
              /\ op'.item.name = op'.given.name
              /\ op'.item.expiryDate = op'.given.expiryDate
              /\ ~HasId(old, op'.item.id)
         /\ op'.fn \in {"deleteFoodItem", "handleDelete"} /\ op'.id # 0 =>
              /\ ~HasId(new, op'.id)
              /\ IsSubSeq(new, old)
              /\ Len(new) = Cardinality({k \in 1..Len(old) :
                                           old[k].id # op'.id})
         /\ \A j, k \in 1..Len(new) : j # k => new[j].id # new[k].id]_vars

C30_Witness ==
  /\ op.fn = "deleteFoodItem"
  /\ op.result = "removed"
  /\ Len(getAllFoodItems(storage)) >= 1
  /\ Cardinality(issued) = MaxIds

\* C34: the name handed to addFoodItem is never empty: for every name that
\* passes validateFoodName, the sanitized and trimmed name of the submitted
\* item has at least one character.
C34_PersistedNameNonEmpty ==
  Has(calls, "addFoodItem") => ev.item.name # << >>

\* C35: every name handed to addFoodItem has at most MAX_NAME_LENGTH
\* characters and is no longer than the trimmed name that was validated.
C35_PersistedNameLength ==
  Has(calls, "addFoodItem") =>
    /\ Len(ev.item.name) <= MAX_NAME_LENGTH
    /\ Len(ev.item.name) <= Len(Trim(name))

C35_Witness ==
  /\ ev.type = "submit"
  /\ ev.result = "ok"
  /\ Has(calls, "addFoodItem")
  /\ Len(Trim(name)) = MAX_NAME_LENGTH
  /\ Len(ev.item.name) = MAX_NAME_LENGTH

\* C36: with isSubmitting not supplied and the synchronous collaborator, the
\* submitting flag is false in every state between two events, and no submit
\* is stopped by the guard.
C36_FlagNeverObserved ==
  ~extSupplied =>
    /\ ~isSubmitting
    /\ ~(ev.type = "submit" /\ ev.result = "blocked")

C36_Witness ==
  /\ ~extSupplied
  /\ ~cbSupplied
  /\ ev.type = "submit"
  /\ ev.result = "ok"
  /\ run.n >= 2
  /\ Has(calls, "setInternalIsSubmitting(true)")
  /\ Has(calls, "setInternalIsSubmitting(false)")

C33_TodaySelectable ==
  [][\A d \in PickDates :
       (DateSelect(d) /\ validateExpiryDate(d, now) = Null) =>
         /\ Has(calls', "onDateChange")
         /\ expiryDate' = d]_vars

\* C31: after every form submission that returned and every confirmed card
\* deletion the list App displays is the list held in the storage, and every
\* submission and every delete click, failed or declined ones included,
\* keeps the two equal when they were equal before; so they are equal after
\* any sequence of such events.
C31_DisplayedListIsStoredList ==
  [][/\ \/ op'.fn = "addFoodItem" /\ op'.result = "returned"
        \/ op'.fn = "handleDelete" /\ op'.result = "accepted"
        => foodItems' = getAllFoodItems(storage')
     /\ /\ op'.fn \in {"addFoodItem", "handleDelete"}
        /\ foodItems = getAllFoodItems(storage)
        => foodItems' = getAllFoodItems(storage')]_vars

C31_Witness ==
  /\ op.fn = "handleDelete"
  /\ op.result = "accepted"
  /\ Has(calls, "onDelete")
  /\ Len(foodItems) >= 1
  /\ foodItems = getAllFoodItems(storage)
  /\ Cardinality(issued) >= 2

====
